---- MODULE Spec2Model ----
(***************************************************************************)
(* TIBBL Online: the line grammar (parseLine), the grid placement engine   *)
(* (parseCodeToGrid) and the Reverse page of app/routes/reverse.tsx, and   *)
(* the editor and the synthesizer (getTileCommand, generateCode) of        *)
(* app/routes/home.tsx.                                                    *)
(*                                                                         *)
(* Text is modelled as it is in the program: a string is a sequence of     *)
(* one-character strings, so that split, trim, toLowerCase and parseInt    *)
(* are computed character by character.                                    *)
(***************************************************************************)
EXTENDS Integers, Sequences, FiniteSets, TLC

VARIABLES
    codeText,   \* Reverse: useState('') of the textarea
    grid,       \* Reverse and Home: useState of the 7x5 grid of the page
    error,      \* Reverse: useState<string | null>; NoError models null
    lastResult, \* the latest parseCodeToGrid call (input and result) since the start or Clear
    tileIn,     \* grammar harness: the tile handed to getTileCommand (or Null)
    line,       \* grammar harness: the line handed to parseLine
    lineResult, \* grammar harness: the ParseLineResult of parseLine(line)
    command,    \* grammar harness: getTileCommand of the parsed tile
    pc,         \* position of the harness / page
    draggedTile, \* Home: useState of the tile being dragged; Null models null
    threads,    \* the lists returned by the latest generateCode call
    threadOutputs, \* Home: useState(['', '', '']), the text shown for each thread
    isRunning,  \* Home: useState(false)
    threadsAgain, \* the lists generateCode returns for the grid of the flattened script
    tangibleInstance, \* Home: useState<TangibleInstance | null>(null); Null models null
    startTimer, \* the setTimeout(..., 500) of the first run is pending
    finishTimers, \* the number of pending setTimeout(() => setIsRunning(false), ...)
    windowTangible \* Home: window.Tangible is defined, the library's script was loaded

runVars == <<tangibleInstance, startTimer, finishTimers, windowTangible>>

homeVars == <<draggedTile, threads, threadOutputs, isRunning, threadsAgain, runVars>>

vars == <<codeText, grid, error, lastResult, tileIn, line, lineResult, command, pc, homeVars>>

-----------------------------------------------------------------------------
(* Strings *)

s_thread == <<"t", "h", "r", "e", "a", "d">>
s_loop == <<"l", "o", "o", "p">>
s_end == <<"e", "n", "d">>
s_play == <<"p", "l", "a", "y">>
s_delay == <<"d", "e", "l", "a", "y">>
s_x == <<"x">>
s_eq == <<"=">>
s_random == <<"r", "a", "n", "d", "o", "m">>
s_plus == <<"+">>
s_minus == <<"-">>
s_if == <<"i", "f">>
s_lt == <<"<">>
s_else == <<"e", "l", "s", "e">>
s_function == <<"f", "u", "n", "c", "t", "i", "o", "n">>
s_call == <<"c", "a", "l", "l">>
s_times == <<"t", "i", "m", "e", "s">>
s_1 == <<"1">>
s_2 == <<"2">>
s_3 == <<"3">>
SP == <<" ">>
NL == <<"\n">>

\* the characters String.prototype.trim and the regular expression \s treat as white space
WhiteSpace == {" ", "\t", "\n", "\r"}

UpperCase == <<"A", "B", "C", "D", "E", "F", "G", "H", "I", "J", "K", "L", "M",
               "N", "O", "P", "Q", "R", "S", "T", "U", "V", "W", "X", "Y", "Z">>
LowerCase == <<"a", "b", "c", "d", "e", "f", "g", "h", "i", "j", "k", "l", "m",
               "n", "o", "p", "q", "r", "s", "t", "u", "v", "w", "x", "y", "z">>

LowerOf == [c \in {UpperCase[k] : k \in 1..26} |-> LowerCase[CHOOSE k \in 1..26 : UpperCase[k] = c]]

\* String.prototype.toLowerCase
toLowerCase(s) ==
    <<>> \o [i \in 1..Len(s) |-> IF s[i] \in DOMAIN LowerOf THEN LowerOf[s[i]] ELSE s[i]]

\* the index of the first character at or after i that is not white space (Len(s) + 1 if none)
RECURSIVE firstNonSpace(_, _)
firstNonSpace(s, i) ==
    IF i > Len(s) \/ s[i] \notin WhiteSpace THEN i ELSE firstNonSpace(s, i + 1)

\* the index of the last character at or before i that is not white space (0 if none)
RECURSIVE lastNonSpace(_, _)
lastNonSpace(s, i) ==
    IF i < 1 \/ s[i] \notin WhiteSpace THEN i ELSE lastNonSpace(s, i - 1)

\* String.prototype.trim
trim(s) == SubSeq(s, firstNonSpace(s, 1), lastNonSpace(s, Len(s)))

\* the index of the first character at or after i that is in seps (Len(s) + 1 if none)
nextIn(s, seps, i) ==
    CHOOSE k \in i..(Len(s) + 1) :
        /\ k = Len(s) + 1 \/ s[k] \in seps
        /\ \A j \in i..(k - 1) : s[j] \notin seps

\* String.prototype.split(sep) for a separator that is one character of seps, each
\* occurrence separating (split('\n')): the pieces of s from index i on
RECURSIVE splitAt(_, _, _)
splitAt(s, seps, i) ==
    LET k == nextIn(s, seps, i)
    IN IF k > Len(s) THEN <<SubSeq(s, i, Len(s))>>
       ELSE <<SubSeq(s, i, k - 1)>> \o splitAt(s, seps, k + 1)

splitNewline(s) == splitAt(s, {"\n"}, 1)

\* String.prototype.split(/\s+/): a maximal run of white space is one separator
RECURSIVE splitRuns(_, _, _)
splitRuns(s, i, cur) ==
    IF i > Len(s) THEN <<cur>>
    ELSE IF s[i] \in WhiteSpace
         THEN IF i > 1 /\ s[i - 1] \in WhiteSpace
              THEN splitRuns(s, i + 1, cur)
              ELSE <<cur>> \o splitRuns(s, i + 1, <<>>)
    ELSE splitRuns(s, i + 1, Append(cur, s[i]))

splitWhitespace(s) == splitRuns(s, 1, <<>>)

\* Array.prototype.join
RECURSIVE join(_, _)
join(parts, sep) ==
    IF parts = <<>> THEN <<>>
    ELSE IF Len(parts) = 1 THEN parts[1]
    ELSE parts[1] \o sep \o join(Tail(parts), sep)

-----------------------------------------------------------------------------
(* parseInt *)

HexDigits == <<"0", "1", "2", "3", "4", "5", "6", "7", "8", "9",
               "a", "b", "c", "d", "e", "f">>

digitValue(c, radix) ==
    IF \E k \in 1..radix : HexDigits[k] = c
    THEN (CHOOSE k \in 1..radix : HexDigits[k] = c) - 1
    ELSE -1

RECURSIVE digitsValue(_, _, _, _)
digitsValue(s, i, radix, acc) ==
    IF i > Len(s) \/ digitValue(toLowerCase(<<s[i]>>)[1], radix) < 0 THEN acc
    ELSE digitsValue(s, i + 1, radix, acc * radix + digitValue(toLowerCase(<<s[i]>>)[1], radix))

NaN == [isNaN |-> TRUE, value |-> 0]

\* the global parseInt(string) without a radix: leading white space, a sign, a 0x
\* prefix, then the longest run of digits; NaN when there is no digit
parseInt(str) ==
    LET s0 == SubSeq(str, firstNonSpace(str, 1), Len(str))
        signed == s0 # <<>> /\ s0[1] \in {"+", "-"}
        sign == IF signed /\ s0[1] = "-" THEN -1 ELSE 1
        s1 == IF signed THEN Tail(s0) ELSE s0
        hex == Len(s1) >= 2 /\ s1[1] = "0" /\ s1[2] \in {"x", "X"}
        radix == IF hex THEN 16 ELSE 10
        s2 == IF hex THEN SubSeq(s1, 3, Len(s1)) ELSE s1
    IN IF s2 = <<>> \/ digitValue(toLowerCase(<<s2[1]>>)[1], radix) < 0
       THEN NaN
       ELSE [isNaN |-> FALSE, value |-> sign * digitsValue(s2, 1, radix, 0)]

isNaN(n) == n.isNaN

-----------------------------------------------------------------------------
(* Vocabulary *)

rotationValues == <<<<"1">>, <<"2">>, <<"3">>, <<"4">>, <<"5">>, <<"6">>, <<"7">>, <<"8">>>>

\* mutant: the table without its entry for playx
Kinds_WithoutPlayx ==
    {"add", "subtract", "delay", "else", "endfunction", "endif", "endloop",
     "function", "functioncall", "if", "loop", "play", "random",
     "thread1", "thread2", "thread3", "variable"}

\* the keys of TILE_INFO
Kinds == {"add", "subtract", "delay", "else", "endfunction", "endif", "endloop",
          "function", "functioncall", "if", "loop", "play", "playx", "random",
          "thread1", "thread2", "thread3", "variable"}

TILE_INFO ==
    [k \in Kinds |->
        CASE k = "add" -> [command |-> join(<<s_x, s_eq, s_x, s_plus, s_1>>, SP), rotatable |-> FALSE]
          [] k = "subtract" -> [command |-> join(<<s_x, s_eq, s_x, s_minus, s_1>>, SP), rotatable |-> FALSE]
          [] k = "delay" -> [command |-> s_delay, rotatable |-> TRUE]
          [] k = "else" -> [command |-> s_else, rotatable |-> FALSE]
          [] k = "endfunction" -> [command |-> join(<<s_end, s_function>>, SP), rotatable |-> FALSE]
          [] k = "endif" -> [command |-> join(<<s_end, s_if>>, SP), rotatable |-> FALSE]
          [] k = "endloop" -> [command |-> join(<<s_end, s_loop>>, SP), rotatable |-> FALSE]
          [] k = "function" -> [command |-> s_function, rotatable |-> FALSE]
          [] k = "functioncall" -> [command |-> join(<<s_call, s_function>>, SP), rotatable |-> FALSE]
          [] k = "if" -> [command |-> join(<<s_if, s_x, s_lt>>, SP), rotatable |-> TRUE]
          [] k = "loop" -> [command |-> s_loop, rotatable |-> TRUE]
          [] k = "play" -> [command |-> s_play, rotatable |-> TRUE]
          [] k = "playx" -> [command |-> join(<<s_play, s_x>>, SP), rotatable |-> FALSE]
          [] k = "random" -> [command |-> join(<<s_x, s_eq, s_random>>, SP), rotatable |-> FALSE]
          [] k = "thread1" -> [command |-> join(<<s_thread, s_1>>, SP), rotatable |-> FALSE]
          [] k = "thread2" -> [command |-> join(<<s_thread, s_2>>, SP), rotatable |-> FALSE]
          [] k = "thread3" -> [command |-> join(<<s_thread, s_3>>, SP), rotatable |-> FALSE]
          [] k = "variable" -> [command |-> join(<<s_x, s_eq>>, SP), rotatable |-> TRUE]]

\* a GridTile; Null models null / undefined
Tile(t, r) == [type |-> t, rotation |-> r]
Null == [type |-> "null"]

-----------------------------------------------------------------------------
(* home.tsx: the command renderer *)

\* mutant: the rotation used as a 1-based index
rotationValueOf_OffByOne(tile) ==
    IF tile.rotation \in 1..Len(rotationValues)
    THEN rotationValues[tile.rotation]
    ELSE s_1

\* info.rotationValues?.[tile.rotation] || '1'
rotationValueOf(tile) ==
    IF tile.rotation \in 0..(Len(rotationValues) - 1)
    THEN rotationValues[tile.rotation + 1]
    ELSE s_1

getTileCommand(tile) ==
    LET info == TILE_INFO[tile.type]
        rotationValue == rotationValueOf(tile)
    IN IF ~info.rotatable THEN info.command
       ELSE CASE tile.type = "play" -> s_play \o SP \o rotationValue
              [] tile.type = "loop" -> s_loop \o SP \o rotationValue \o SP \o s_times
              [] tile.type = "delay" -> s_delay \o SP \o rotationValue
              [] tile.type = "variable" -> s_x \o SP \o s_eq \o SP \o rotationValue
              [] tile.type = "if" -> s_if \o SP \o s_x \o SP \o s_lt \o SP \o rotationValue
              [] OTHER -> info.command

-----------------------------------------------------------------------------
(* reverse.tsx: the line grammar *)

\* an error message is the sequence of the pieces of its template; NoError is no message
NoError == <<>>
Undefined == <<"undefined">>

Ok(t, r) == [success |-> TRUE, tile |-> Tile(t, r), error |-> NoError]
Err(msg) == [success |-> FALSE, tile |-> Null, error |-> msg]

\* parts[i] of a JavaScript array (0-based, undefined past the end)
part(parts, i) == IF i < Len(parts) THEN parts[i + 1] ELSE Undefined

\* isNaN(n) || n < 1 || n > 8
outOfRange(n) == isNaN(n) \/ n.value < 1 \/ n.value > 8

parseThread(parts) ==
    IF Len(parts) < 2
    THEN Err(<<"Thread command requires a thread number (1, 2, or 3)">>)
    ELSE LET threadNum == part(parts, 1)
         IN IF threadNum = s_1 THEN Ok("thread1", 0)
            ELSE IF threadNum = s_2 THEN Ok("thread2", 0)
            ELSE IF threadNum = s_3 THEN Ok("thread3", 0)
            ELSE Err(<<"Thread number must be 1, 2, or 3">>)

\* mutant: a loop line of exactly two tokens required
parseLoop_ExactArity(parts) ==
    IF Len(parts) # 2
    THEN Err(<<"Loop command requires a number (1-8)">>)
    ELSE LET times == parseInt(part(parts, 1))
         IN IF outOfRange(times)
            THEN Err(<<"Loop number must be between 1 and 8">>)
            ELSE Ok("loop", times.value - 1)

parseLoop(parts) ==
    IF Len(parts) < 2
    THEN Err(<<"Loop command requires a number (1-8)">>)
    ELSE LET times == parseInt(part(parts, 1))
         IN IF outOfRange(times)
            THEN Err(<<"Loop number must be between 1 and 8">>)
            ELSE Ok("loop", times.value - 1)

parsePlay(parts) ==
    IF Len(parts) < 2
    THEN Err(<<"Play command requires a note number (1-8) or x">>)
    ELSE IF part(parts, 1) = s_x THEN Ok("playx", 0)
    ELSE LET note == parseInt(part(parts, 1))
         IN IF outOfRange(note)
            THEN Err(<<"Play note must be between 1 and 8, or x">>)
            ELSE Ok("play", note.value - 1)

parseDelay(parts) ==
    IF Len(parts) < 2
    THEN Err(<<"Delay command requires a duration (1-8)">>)
    ELSE LET duration == parseInt(part(parts, 1))
         IN IF outOfRange(duration)
            THEN Err(<<"Delay duration must be between 1 and 8">>)
            ELSE Ok("delay", duration.value - 1)

\* mutant: the two arithmetic tiles exchanged
parseArithmetic_Swapped(parts) ==
    IF part(parts, 3) = s_plus /\ part(parts, 4) = s_1 THEN Ok("subtract", 0)
    ELSE IF part(parts, 3) = s_minus /\ part(parts, 4) = s_1 THEN Ok("add", 0)
    ELSE Err(<<"Variable arithmetic must be \"x = x + 1\" or \"x = x - 1\"">>)

\* the branch parts.length >= 5 && parts[2] === 'x'
parseArithmetic(parts) ==
    IF part(parts, 3) = s_plus /\ part(parts, 4) = s_1 THEN Ok("add", 0)
    ELSE IF part(parts, 3) = s_minus /\ part(parts, 4) = s_1 THEN Ok("subtract", 0)
    ELSE Err(<<"Variable arithmetic must be \"x = x + 1\" or \"x = x - 1\"">>)

parseVariable(parts) ==
    IF Len(parts) < 2 \/ part(parts, 1) # s_eq
    THEN Err(<<"Variable command must be in format \"x = ...\" ">>)
    ELSE IF Len(parts) >= 3 /\ part(parts, 2) = s_random THEN Ok("random", 0)
    ELSE IF Len(parts) >= 5 /\ part(parts, 2) = s_x
         THEN parseArithmetic(parts)
    ELSE IF Len(parts) >= 3
         THEN LET value == parseInt(part(parts, 2))
              IN IF outOfRange(value)
                 THEN Err(<<"Variable value must be between 1 and 8">>)
                 ELSE Ok("variable", value.value - 1)
    ELSE Err(<<"Invalid variable command">>)

\* mutant: the rotation is the condition itself, not condition - 1
parseIf_NoDecrement(parts) ==
    IF Len(parts) < 4 \/ part(parts, 1) # s_x \/ part(parts, 2) # s_lt
    THEN Err(<<"If command must be in format \"if x < number\"">>)
    ELSE LET condition == parseInt(part(parts, 3))
         IN IF outOfRange(condition)
            THEN Err(<<"If condition must be between 1 and 8">>)
            ELSE Ok("if", condition.value)

parseIf(parts) ==
    IF Len(parts) < 4 \/ part(parts, 1) # s_x \/ part(parts, 2) # s_lt
    THEN Err(<<"If command must be in format \"if x < number\"">>)
    ELSE LET condition == parseInt(part(parts, 3))
         IN IF outOfRange(condition)
            THEN Err(<<"If condition must be between 1 and 8">>)
            ELSE Ok("if", condition.value - 1)

unknownCommand(ln) == Err(<<"Unknown command: \"">> \o ln \o <<"\"">>)

parseLine(ln) ==
    LET branches(parts) ==
            LET p0 == part(parts, 0)
                p1 == part(parts, 1)
            IN IF p0 = s_thread THEN parseThread(parts)
               ELSE IF p0 = s_loop THEN parseLoop(parts)
               ELSE IF p0 = s_end /\ p1 = s_loop THEN Ok("endloop", 0)
               ELSE IF p0 = s_play THEN parsePlay(parts)
               ELSE IF p0 = s_delay THEN parseDelay(parts)
               ELSE IF p0 = s_x THEN parseVariable(parts)
               ELSE IF p0 = s_if THEN parseIf(parts)
               ELSE IF p0 = s_else THEN Ok("else", 0)
               ELSE IF p0 = s_end /\ p1 = s_if THEN Ok("endif", 0)
               ELSE IF p0 = s_function THEN Ok("function", 0)
               ELSE IF p0 = s_end /\ p1 = s_function THEN Ok("endfunction", 0)
               ELSE IF p0 = s_call /\ p1 = s_function THEN Ok("functioncall", 0)
               ELSE unknownCommand(ln)
    IN branches(splitWhitespace(ln))

-----------------------------------------------------------------------------
(* reverse.tsx: the grid placement engine *)

ROWS == 7
COLS == 5

\* Array(7).fill(null).map(() => Array(5).fill(null)); rows and columns are 0-based
emptyGrid == [r \in 0..(ROWS - 1) |-> [c \in 0..(COLS - 1) |-> Null]]

\* mutant: nothing put on the grid for an empty script
demoGrid_Empty == emptyGrid

\* the fixed grid returned for an empty script
demoGrid ==
    [emptyGrid EXCEPT ![0] = [c \in 0..(COLS - 1) |->
        CASE c = 0 -> Tile("thread1", 0)
          [] c = 1 -> Tile("loop", 2)
          [] c = 2 -> Tile("play", 1)
          [] c = 3 -> Tile("endloop", 0)
          [] OTHER -> Null]]

overflowError == <<"Code exceeds grid size (7 rows maximum)">>

\* codeText.toLowerCase().trim().split('\n').filter(line => line.trim())
linesOf(text) == SelectSeq(splitNewline(trim(toLowerCase(text))), LAMBDA l : trim(l) # <<>>)

\* mutant: the 0-based index in the message
lineError_ZeroBased(i, err) == <<"Line ", ToString(i), ": ">> \o err

\* `Line ${i + 1}: ${result.error}`
lineError(i, err) == <<"Line ", ToString(i + 1), ": ">> \o err

isThreadTile(tile) == tile.type = "thread1" \/ tile.type = "thread2" \/ tile.type = "thread3"

\* mutant: the loop is left as soon as the grid's capacity of tiles is parsed
RECURSIVE parseLines_UpToCapacity(_, _, _)
parseLines_UpToCapacity(lines, i, parsedLines) ==
    IF i >= Len(lines) \/ Len(parsedLines) >= ROWS * COLS
    THEN [failed |-> FALSE, parsedLines |-> parsedLines, error |-> NoError]
    ELSE LET push(result) ==
                 IF ~result.success
                 THEN [failed |-> TRUE, parsedLines |-> parsedLines,
                       error |-> lineError(i, result.error)]
                 ELSE parseLines_UpToCapacity(lines, i + 1,
                         Append(parsedLines, [tile |-> result.tile,
                                              isThread |-> isThreadTile(result.tile),
                                              lineNum |-> i + 1]))
             body(ln) ==
                 IF ln = <<>> THEN parseLines_UpToCapacity(lines, i + 1, parsedLines)
                 ELSE push(parseLine(ln))
         IN body(trim(lines[i + 1]))

\* the first loop: parse lines[i..] (i is 0-based) onto parsedLines, stopping at the
\* first line the grammar rejects
RECURSIVE parseLines(_, _, _)
parseLines(lines, i, parsedLines) ==
    IF i >= Len(lines) THEN [failed |-> FALSE, parsedLines |-> parsedLines, error |-> NoError]
    ELSE LET push(result) ==
                 IF ~result.success
                 THEN [failed |-> TRUE, parsedLines |-> parsedLines,
                       error |-> lineError(i, result.error)]
                 ELSE parseLines(lines, i + 1,
                         Append(parsedLines, [tile |-> result.tile,
                                              isThread |-> isThreadTile(result.tile),
                                              lineNum |-> i + 1]))
             body(ln) ==
                 IF ln = <<>> THEN parseLines(lines, i + 1, parsedLines)
                 ELSE push(parseLine(ln))
         IN body(trim(lines[i + 1]))

\* mutant: a new row before every thread marker, also at column 0
simJump_AnyColumn(parsed, simulatedCol) == parsed.isThread

\* parsed.isThread && simulatedCol > 0
simJump(parsed, simulatedCol) == parsed.isThread /\ simulatedCol > 0

\* mutant: a marker at column 1 stays in its row
placeJump_LateColumn(useThreadRows, parsed, col) == useThreadRows /\ parsed.isThread /\ col > 1

\* mutant: the flag inverted
placeJump_Inverted(useThreadRows, parsed, col) == ~useThreadRows /\ parsed.isThread /\ col > 0

\* useThreadRows && parsed.isThread && col > 0
placeJump(useThreadRows, parsed, col) == useThreadRows /\ parsed.isThread /\ col > 0

\* mutant: the wrap one column early
needWrap_Early(col) == col >= COLS - 1

\* col >= 5
needWrap(col) == col >= COLS

\* mutant: the loop is left without reporting the overflow
overflow_Silent(g) == [success |-> TRUE, grid |-> g, error |-> NoError]

\* return { success: false, grid, error: 'Code exceeds grid size (7 rows maximum)' }
overflow(g) == [success |-> FALSE, grid |-> g, error |-> overflowError]

\* mutant: the simulated column never advances
simAdvance_Never(simulatedRow, simulatedCol) == simulatedCol

\* if (simulatedRow < 7) simulatedCol++
simAdvance(simulatedRow, simulatedCol) ==
    IF simulatedRow < ROWS THEN simulatedCol + 1 ELSE simulatedCol

\* the dry run of the thread-row layout: the value of simulatedRow when the loop ends,
\* and the cursor (simulatedRow, simulatedCol) at the end of each iteration that
\* handled a tile
RECURSIVE simulate(_, _, _, _, _)
simulate(parsedLines, i, simulatedRow, simulatedCol, trace) ==
    IF i >= Len(parsedLines) THEN [row |-> simulatedRow, trace |-> trace]
    ELSE LET parsed == parsedLines[i + 1]
         IN IF parsed.tile = Null
            THEN simulate(parsedLines, i + 1, simulatedRow, simulatedCol, trace)
            ELSE LET jump == simJump(parsed, simulatedCol)
                     row1 == IF jump THEN simulatedRow + 1 ELSE simulatedRow
                     col1 == IF jump THEN 0 ELSE simulatedCol
                 IN IF row1 >= ROWS THEN [row |-> row1, trace |-> trace]
                    ELSE LET wrap == needWrap(col1)
                             row2 == IF wrap THEN row1 + 1 ELSE row1
                             col2 == IF wrap THEN 0 ELSE col1
                             next(col3) ==
                                 simulate(parsedLines, i + 1, row2, col3,
                                          Append(trace, <<row2, col3>>))
                         IN next(simAdvance(row2, col2))

\* mutant: the thread-row layout chosen without the dry run
useThreadRowsOf_NoDryRun(parsedLines) ==
    LET totalTiles == Cardinality({i \in 1..Len(parsedLines) : parsedLines[i].tile # Null})
        maxGridCapacity == ROWS * COLS
        hasThreads == \E i \in 1..Len(parsedLines) : parsedLines[i].isThread
    IN hasThreads /\ totalTiles <= maxGridCapacity

\* hasThreads && totalTiles <= maxGridCapacity, then the dry run
useThreadRowsOf(parsedLines) ==
    LET totalTiles == Cardinality({i \in 1..Len(parsedLines) : parsedLines[i].tile # Null})
        maxGridCapacity == ROWS * COLS
        hasThreads == \E i \in 1..Len(parsedLines) : parsedLines[i].isThread
    IN IF hasThreads /\ totalTiles <= maxGridCapacity
       THEN simulate(parsedLines, 0, 0, 0, <<>>).row < ROWS
       ELSE FALSE

\* mutant: the column left where it is after a tile is written
placeAdvance_Stuck(col) == col

\* col++
placeAdvance(col) == col + 1

\* the placement loop from parsedLines[i] on, with the cursor at (row, col): the value
\* returned, and with it the cursor (row, col) at the end of each iteration that
\* handled a tile and the row when the loop was left
RECURSIVE place(_, _, _, _, _, _, _)
place(parsedLines, useThreadRows, i, row, col, g, trace) ==
    LET leave(result, lastRow) ==
            [success |-> result.success, grid |-> result.grid, error |-> result.error,
             row |-> lastRow, trace |-> trace]
    IN IF i >= Len(parsedLines)
       THEN leave([success |-> TRUE, grid |-> g, error |-> NoError], row)
       ELSE LET parsed == parsedLines[i + 1]
            IN IF parsed.tile = Null
               THEN place(parsedLines, useThreadRows, i + 1, row, col, g, trace)
               ELSE LET jump == placeJump(useThreadRows, parsed, col)
                        row1 == IF jump THEN row + 1 ELSE row
                        col1 == IF jump THEN 0 ELSE col
                    IN IF row1 >= ROWS
                       THEN leave(overflow(g), row1)
                       ELSE LET wrap == needWrap(col1)
                                row2 == IF wrap THEN row1 + 1 ELSE row1
                                col2 == IF wrap THEN 0 ELSE col1
                            IN IF wrap /\ row2 >= ROWS
                               THEN leave(overflow(g), row2)
                               ELSE LET next(col3) ==
                                            place(parsedLines, useThreadRows, i + 1, row2, col3,
                                                  [g EXCEPT ![row2][col2] = parsed.tile],
                                                  Append(trace, <<row2, col3>>))
                                    IN next(placeAdvance(col2))

\* the ParseResult, together with the locals parsedLines and useThreadRows at the return
parseCodeToGrid(text) ==
    IF trim(text) = <<>>
    THEN [success |-> TRUE, grid |-> demoGrid, error |-> NoError,
          parsedLines |-> <<>>, useThreadRows |-> FALSE]
    ELSE LET return(placed, parsedLines, useThreadRows) ==
                 [success |-> placed.success, grid |-> placed.grid, error |-> placed.error,
                  parsedLines |-> parsedLines, useThreadRows |-> useThreadRows]
             layout(parsedLines, useThreadRows) ==
                 return(place(parsedLines, useThreadRows, 0, 0, 0, emptyGrid, <<>>),
                        parsedLines, useThreadRows)
             parsed(parsing) ==
                 IF parsing.failed
                 THEN [success |-> FALSE, grid |-> emptyGrid, error |-> parsing.error,
                       parsedLines |-> parsing.parsedLines, useThreadRows |-> FALSE]
                 ELSE layout(parsing.parsedLines, useThreadRowsOf(parsing.parsedLines))
         IN parsed(parseLines(linesOf(text), 0, <<>>))

-----------------------------------------------------------------------------
(* home.tsx: the synthesizer *)

\* mutant: the grid walked column by column
cellAt_ColumnMajor(g, k) == g[k % ROWS][k \div ROWS]

\* grid[row][col] at step k of `for row ... for col ...`
cellAt(g, k) == g[k \div COLS][k % COLS]

\* mutant: the number of the marker taken as the index of the list
switchThread_OneBased(tile, currentThread) ==
    IF tile.type = "thread1" THEN 1
    ELSE IF tile.type = "thread2" THEN 2
    ELSE IF tile.type = "thread3" THEN 0
    ELSE currentThread

\* the if / else if chain on tile.type: the value of currentThread after it
switchThread(tile, currentThread) ==
    IF tile.type = "thread1" THEN 0
    ELSE IF tile.type = "thread2" THEN 1
    ELSE IF tile.type = "thread3" THEN 2
    ELSE currentThread

\* mutant: the command is pushed before the thread is switched
pushIndex_BeforeSwitch(before, after) == before

\* threads[currentThread].push(command) comes after the chain: the index it uses
pushIndex(before, after) == after

\* the two loops of generateCode from step k on
RECURSIVE generateFrom(_, _, _, _)
generateFrom(g, k, currentThread, lists) ==
    IF k >= ROWS * COLS THEN lists
    ELSE LET step(tile) ==
                 IF tile = Null THEN generateFrom(g, k + 1, currentThread, lists)
                 ELSE LET push(cmd, after) ==
                              generateFrom(g, k + 1, after,
                                  [lists EXCEPT ![pushIndex(currentThread, after)] =
                                      Append(@, cmd)])
                      IN push(getTileCommand(tile), switchThread(tile, currentThread))
         IN step(cellAt(g, k))

\* const threads = [[], [], []]; let currentThread = 0; ... return threads
generateCode(g) == generateFrom(g, 0, 0, [t \in 0..2 |-> <<>>])

-----------------------------------------------------------------------------
(* Inputs *)

MaxExtra == 1

s_foo == <<"f", "o", "o">>
s_0 == <<"0">>
s_8 == <<"8">>
s_9 == <<"9">>
s_8_5 == <<"8", ".", "5">>
s_minus1 == <<"-", "1">>

Vocab == {s_thread, s_loop, s_end, s_play, s_delay, s_x, s_eq, s_random, s_plus, s_minus,
          s_if, s_lt, s_else, s_function, s_call, s_times, s_foo,
          s_0, s_9, s_8_5, s_minus1} \cup {rotationValues[n] : n \in 1..8}

ExtraVocab == {s_times, s_1, s_9, s_x, s_plus, s_foo}

SeqsUpTo(S, n) == UNION {[1..k -> S] : k \in 0..n}

\* the token sequences of the lines handed to parseLine
LineTokens ==
    LET heads == (SeqsUpTo(Vocab, 2) \ {<<>>})
                 \cup {<<s_if, s_x, s_lt>> \o t : t \in SeqsUpTo(Vocab, 1)}
                 \cup {<<s_x, s_eq, s_x>> \o t : t \in SeqsUpTo(Vocab, 2)}
    IN {h \o e : h \in heads, e \in SeqsUpTo(ExtraVocab, MaxExtra)}

Lines == {join(t, SP) : t \in LineTokens}

Parameterized == {k \in Kinds : TILE_INFO[k].rotatable}

AllTiles == {Tile(k, r) : k \in Kinds, r \in 0..7} \ {Tile(k, r) : k \in Kinds \ Parameterized, r \in 1..7}

NoLineResult == [success |-> FALSE, tile |-> Null, error |-> NoError]
NoResult == [success |-> FALSE, grid |-> emptyGrid, error |-> NoError,
             parsedLines |-> <<>>, useThreadRows |-> FALSE]
NoCall == [input |-> <<>>, result |-> NoResult]
NoThreads == [t \in 0..2 |-> <<>>]
NoOutputs == [t \in 0..2 |-> <<>>]

\* script lines: canonical commands, some with capitals and irregular white space
Body ==
    <<<<"P", "l", "a", "y">> \o SP \o s_1,
      join(<<s_loop, s_3, s_times>>, SP),
      s_x \o SP \o SP \o s_eq \o SP \o SP \o <<"5">>,
      join(<<s_end, s_loop>>, SP),
      SP \o join(<<s_if, s_x, s_lt, s_8>>, SP),
      s_else \o <<"\t">>,
      join(<<s_delay, s_2>>, SP)>>

Markers ==
    <<join(<<s_thread, s_1>>, SP),
      <<"T", "h", "r", "e", "a", "d">> \o SP \o s_2,
      s_thread \o SP \o SP \o s_3>>

BodyAt(j) == Body[((j - 1) % Len(Body)) + 1]

MaxLines == 37
MaxBlocks == 3
MaxMixed == 4

LeadLens == {0, 1, 5, 20, 30}
RunLens == {0, 1, 4, 5, 10}

\* n command lines without a thread marker
PlainLines(n) == [j \in 1..n |-> BodyAt(j)]

\* a thread marker followed by n command lines, for each run length n of runs; the
\* markers vary with the position and the length of their run
RECURSIVE BlockLines(_, _)
BlockLines(runs, i) ==
    IF i > Len(runs) THEN <<>>
    ELSE <<Markers[((i + runs[i]) % 3) + 1]>> \o PlainLines(runs[i]) \o BlockLines(runs, i + 1)

\* lines of all sorts: a valid one, a blank one, and two the grammar rejects
MixedItems == {join(<<s_play, s_2>>, SP), SP \o SP, join(<<s_loop, s_9>>, SP), <<"j", "u", "m", "p">>}

\* ls with line k replaced by a line the grammar rejects, for each k of bad
BadAt(ls, bad) ==
    [k \in 1..Len(ls) |->
        IF k \notin bad THEN ls[k]
        ELSE IF k % 2 = 0 THEN join(<<s_loop, s_9>>, SP) ELSE <<"j", "u", "m", "p">>]

\* scripts longer than the grid, with rejected lines before and after the 35th line
LongBadLines ==
    {BadAt(ls, bad) :
        ls \in {PlainLines(36), PlainLines(MaxLines),
                 PlainLines(30) \o BlockLines(<<1, 4, 0>>, 1)},
        bad \in {{1}, {20}, {35}, {36}, {20, 36}, {2, 36}}}

ScriptLines ==
    {PlainLines(n) : n \in 1..MaxLines}
    \cup LongBadLines
    \cup {PlainLines(lead) \o BlockLines(runs, 1) :
            lead \in LeadLens, runs \in SeqsUpTo(RunLens, MaxBlocks) \ {<<>>}}
    \cup (SeqsUpTo(MixedItems, MaxMixed) \ {<<>>})

Scripts == {join(ls, NL) : ls \in ScriptLines}

-----------------------------------------------------------------------------
(* The grammar and the renderer applied to their inputs *)

InitGrammar ==
    /\ codeText = <<>>
    /\ grid = emptyGrid
    /\ error = NoError
    /\ lastResult = NoCall
    /\ lineResult = NoLineResult
    /\ command = <<>>
    /\ pc = "start"
    /\ draggedTile = Null
    /\ threads = NoThreads
    /\ threadOutputs = NoOutputs
    /\ isRunning = FALSE
    /\ threadsAgain = NoThreads
    /\ tangibleInstance = Null
    /\ startTimer = FALSE
    /\ finishTimers = 0
    /\ windowTangible = FALSE
    /\ \/ tileIn \in AllTiles /\ line = <<>>
       \/ tileIn = Null /\ line \in Lines

\* getTileCommand(tileIn)
Synthesize ==
    /\ pc = "start"
    /\ tileIn # Null
    /\ line' = getTileCommand(tileIn)
    /\ pc' = "rendered"
    /\ UNCHANGED <<codeText, grid, error, lastResult, tileIn, lineResult, command, homeVars>>

\* parseLine(line)
Grammar ==
    /\ \/ pc = "start" /\ tileIn = Null
       \/ pc = "rendered"
    /\ lineResult' = parseLine(line)
    /\ pc' = "parsed"
    /\ UNCHANGED <<codeText, grid, error, lastResult, tileIn, line, command, homeVars>>

\* getTileCommand of the tile parseLine returned
Resynthesize ==
    /\ pc = "parsed"
    /\ lineResult.success
    /\ command' = getTileCommand(lineResult.tile)
    /\ pc' = "done"
    /\ UNCHANGED <<codeText, grid, error, lastResult, tileIn, line, lineResult, homeVars>>

NextGrammar == Synthesize \/ Grammar \/ Resynthesize

SpecGrammar == InitGrammar /\ [][NextGrammar]_vars

-----------------------------------------------------------------------------
(* Claims about the grammar and the renderer, checked under SpecGrammar *)

IsPrefix(p, q) == Len(p) <= Len(q) /\ SubSeq(q, 1, Len(p)) = p

\* the decimal numeral of n in 1..8, as script text
Numeral(n) == <<ToString(n)>>

\* C1: for every parameterized kind and every rotation r in 0..7, parseLine of
\* getTileCommand({kind, r}) succeeds and returns exactly the tile {kind, r}.
C1_RenderParseIdentity ==
    (pc \in {"parsed", "done"} /\ tileIn # Null
        /\ tileIn.type \in {"play", "loop", "delay", "variable", "if"})
    => (lineResult.success /\ lineResult.tile = tileIn)

C1_Witness ==
    /\ pc = "parsed"
    /\ tileIn = Tile("loop", 7)
    /\ line = join(<<s_loop, s_8, s_times>>, SP)
    /\ lineResult.tile = Tile("loop", 7)

\* the canonical command text of the kinds that have a fixed keyword form
CanonicalText ==
    [k \in {"add", "subtract", "else", "endfunction", "endif", "endloop", "function",
            "functioncall", "playx", "random", "thread1", "thread2", "thread3"} |->
        CASE k = "add" -> join(<<s_x, s_eq, s_x, s_plus, s_1>>, SP)
          [] k = "subtract" -> join(<<s_x, s_eq, s_x, s_minus, s_1>>, SP)
          [] k = "else" -> s_else
          [] k = "endfunction" -> join(<<s_end, s_function>>, SP)
          [] k = "endif" -> join(<<s_end, s_if>>, SP)
          [] k = "endloop" -> join(<<s_end, s_loop>>, SP)
          [] k = "function" -> s_function
          [] k = "functioncall" -> join(<<s_call, s_function>>, SP)
          [] k = "playx" -> join(<<s_play, s_x>>, SP)
          [] k = "random" -> join(<<s_x, s_eq, s_random>>, SP)
          [] k = "thread1" -> join(<<s_thread, s_1>>, SP)
          [] k = "thread2" -> join(<<s_thread, s_2>>, SP)
          [] k = "thread3" -> join(<<s_thread, s_3>>, SP)]

Forms ==
    {[pre |-> <<s_thread, s_1>>, tile |-> Tile("thread1", 0)],
     [pre |-> <<s_thread, s_2>>, tile |-> Tile("thread2", 0)],
     [pre |-> <<s_thread, s_3>>, tile |-> Tile("thread3", 0)],
     [pre |-> <<s_play, s_x>>, tile |-> Tile("playx", 0)],
     [pre |-> <<s_x, s_eq, s_random>>, tile |-> Tile("random", 0)],
     [pre |-> <<s_x, s_eq, s_x, s_plus, s_1>>, tile |-> Tile("add", 0)],
     [pre |-> <<s_x, s_eq, s_x, s_minus, s_1>>, tile |-> Tile("subtract", 0)],
     [pre |-> <<s_end, s_loop>>, tile |-> Tile("endloop", 0)],
     [pre |-> <<s_end, s_if>>, tile |-> Tile("endif", 0)],
     [pre |-> <<s_end, s_function>>, tile |-> Tile("endfunction", 0)],
     [pre |-> <<s_else>>, tile |-> Tile("else", 0)],
     [pre |-> <<s_function>>, tile |-> Tile("function", 0)],
     [pre |-> <<s_call, s_function>>, tile |-> Tile("functioncall", 0)]}
    \cup {[pre |-> <<s_loop, Numeral(n)>>, tile |-> Tile("loop", n - 1)] : n \in 1..8}
    \cup {[pre |-> <<s_play, Numeral(n)>>, tile |-> Tile("play", n - 1)] : n \in 1..8}
    \cup {[pre |-> <<s_delay, Numeral(n)>>, tile |-> Tile("delay", n - 1)] : n \in 1..8}
    \cup {[pre |-> <<s_x, s_eq, Numeral(n)>>, tile |-> Tile("variable", n - 1)] : n \in 1..8}
    \cup {[pre |-> <<s_if, s_x, s_lt, Numeral(n)>>, tile |-> Tile("if", n - 1)] : n \in 1..8}

\* the forms a line matches: those whose tokens the line starts with
MatchingForms(ln) == {f \in Forms : IsPrefix(f.pre, splitWhitespace(ln))}

OutOfRangeNumerals == {s_0, s_9, s_8_5, s_minus1}

\* where each command takes its numeric argument, and its range message
RangeRules ==
    {[pre |-> <<s_loop>>, msg |-> <<"Loop number must be between 1 and 8">>],
     [pre |-> <<s_play>>, msg |-> <<"Play note must be between 1 and 8, or x">>],
     [pre |-> <<s_delay>>, msg |-> <<"Delay duration must be between 1 and 8">>],
     [pre |-> <<s_x, s_eq>>, msg |-> <<"Variable value must be between 1 and 8">>],
     [pre |-> <<s_if, s_x, s_lt>>, msg |-> <<"If condition must be between 1 and 8">>]}

\* the lines that lack an argument, and the messages that say so
ArityLines == {<<s_thread>>, <<s_loop>>, <<s_play>>, <<s_delay>>, <<s_x>>, <<s_x, s_eq>>,
               <<s_if>>, <<s_if, s_x>>, <<s_if, s_x, s_lt>>}
ArityMessages ==
    {<<"Thread command requires a thread number (1, 2, or 3)">>,
     <<"Loop command requires a number (1-8)">>,
     <<"Play command requires a note number (1-8) or x">>,
     <<"Delay command requires a duration (1-8)">>,
     <<"Variable command must be in format \"x = ...\" ">>,
     <<"Invalid variable command">>,
     <<"If command must be in format \"if x < number\"">>}

FirstTokens == {s_thread, s_loop, s_end, s_play, s_delay, s_x, s_if, s_else, s_function, s_call}

\* C4: parseLine never yields a tile for a line that matches no recognized form; an
\* unknown command, a thread number other than 1, 2, 3, a numeric argument outside
\* 1..8 and a missing argument each fail with their own message.
C4_RejectsUnrecognized ==
    (pc \in {"parsed", "done"} /\ tileIn = Null) =>
        LET parts == splitWhitespace(line)
        IN /\ MatchingForms(line) = {} => ~lineResult.success
           /\ (\/ parts[1] \notin FirstTokens
               \/ parts[1] = s_end /\ part(parts, 1) \notin {s_loop, s_if, s_function}
               \/ parts[1] = s_call /\ part(parts, 1) # s_function)
              => lineResult = Err(<<"Unknown command: \"">> \o line \o <<"\"">>)
           /\ (parts[1] = s_thread /\ Len(parts) >= 2 /\ parts[2] \notin {s_1, s_2, s_3})
              => lineResult = Err(<<"Thread number must be 1, 2, or 3">>)
           /\ \A rule \in RangeRules :
                (/\ IsPrefix(rule.pre, parts)
                 /\ Len(parts) > Len(rule.pre)
                 /\ parts[Len(rule.pre) + 1] \in OutOfRangeNumerals)
                => lineResult = Err(rule.msg)
           /\ parts \in ArityLines => ~lineResult.success /\ lineResult.error \in ArityMessages

\* white space between the tokens of a line
Separators == {SP, <<"\t">>, SP \o SP}

\* C18: further tokens appended, after white space, to a line parseLine accepts do
\* not change the result: the same kind and rotation, for every form of the grammar
\* ('loop 3' and 'loop 3 times' both give loop with rotation 2).
C18_TrailingTokensIgnored ==
    (pc = "parsed" /\ lineResult.success) =>
        \A token \in Vocab : \A sep \in Separators :
            \A longer \in {parseLine(line \o sep \o token)} :
                /\ longer.success
                /\ longer.tile = lineResult.tile
                /\ longer.error = NoError

C18_Witness ==
    /\ pc = "parsed"
    /\ line = join(<<s_loop, s_3>>, SP)
    /\ lineResult.success
    /\ lineResult.tile = [type |-> "loop", rotation |-> 2]
    /\ parseLine(join(<<s_loop, s_3, s_times>>, SP)).tile = [type |-> "loop", rotation |-> 2]

\* C19 as stated: the vocabulary table TILE_INFO has exactly 17 kinds, and the tile
\* parseLine returns has one of them.
C19_Original ==
    /\ Cardinality(DOMAIN TILE_INFO) = 17
    /\ (pc \in {"parsed", "done"} /\ lineResult.success) => lineResult.tile.type \in DOMAIN TILE_INFO

\* C19 (amended): the vocabulary table TILE_INFO has exactly 18 kinds, and the tile
\* parseLine returns has one of them.
C19_ClosedVocabulary ==
    /\ Cardinality(DOMAIN TILE_INFO) = 18
    /\ (pc \in {"parsed", "done"} /\ lineResult.success) =>
            /\ lineResult.tile.type \in DOMAIN TILE_INFO
            /\ DOMAIN lineResult.tile = {"type", "rotation"}

C19_Witness ==
    /\ pc = "parsed"
    /\ line = join(<<s_play, s_x>>, SP)
    /\ lineResult.success
    /\ lineResult.tile.type = "playx"

-----------------------------------------------------------------------------
(* The Reverse page: Generate and Clear on a script *)

demoScript ==
    join(<<join(<<s_thread, s_1>>, SP), join(<<s_loop, s_3, s_times>>, SP),
           join(<<s_play, s_2>>, SP), join(<<s_end, s_loop>>, SP)>>, NL)

InitPlacement ==
    /\ codeText \in Scripts
    /\ grid = emptyGrid
    /\ error = NoError
    /\ lastResult = NoCall
    /\ tileIn = Null
    /\ line = <<>>
    /\ lineResult = NoLineResult
    /\ command = <<>>
    /\ pc = "idle"
    /\ draggedTile = Null
    /\ threads = NoThreads
    /\ threadOutputs = NoOutputs
    /\ isRunning = FALSE
    /\ threadsAgain = NoThreads
    /\ tangibleInstance = Null
    /\ startTimer = FALSE
    /\ finishTimers = 0
    /\ windowTangible = FALSE

\* mutant: the grid of the result shown whether the parse succeeded or not
handleGenerate_ShowsPartial ==
    \E result \in {parseCodeToGrid(codeText)} :
       /\ codeText' = IF codeText = <<>> THEN demoScript ELSE codeText
       /\ grid' = result.grid
       /\ error' = (IF result.success THEN NoError
                    ELSE IF result.error # NoError THEN result.error ELSE <<"Unknown error">>)
       /\ lastResult' = [input |-> codeText, result |-> result]
       /\ pc' = "generated"
       /\ UNCHANGED <<tileIn, line, lineResult, command, homeVars>>

\* mutant: the error message left as it was by a successful parse
handleGenerate_KeepsError ==
    \E result \in {parseCodeToGrid(codeText)} :
       /\ codeText' = IF codeText = <<>> THEN demoScript ELSE codeText
       /\ IF result.success
          THEN grid' = result.grid /\ UNCHANGED error
          ELSE /\ error' = (IF result.error # NoError THEN result.error ELSE <<"Unknown error">>)
               /\ UNCHANGED grid
       /\ lastResult' = [input |-> codeText, result |-> result]
       /\ pc' = "generated"
       /\ UNCHANGED <<tileIn, line, lineResult, command, homeVars>>

handleGenerate ==
    \E result \in {parseCodeToGrid(codeText)} :
       /\ codeText' = IF codeText = <<>> THEN demoScript ELSE codeText
       /\ IF result.success
          THEN grid' = result.grid /\ error' = NoError
          ELSE /\ error' = (IF result.error # NoError THEN result.error ELSE <<"Unknown error">>)
               /\ UNCHANGED grid
       /\ lastResult' = [input |-> codeText, result |-> result]
       /\ pc' = "generated"
       /\ UNCHANGED <<tileIn, line, lineResult, command, homeVars>>

handleClear ==
    /\ codeText' = <<>>
    /\ grid' = emptyGrid
    /\ error' = NoError
    /\ lastResult' = NoCall
    /\ pc' = "cleared"
    /\ UNCHANGED <<tileIn, line, lineResult, command, homeVars>>

NextPlacement == handleGenerate \/ handleClear

SpecPlacement == InitPlacement /\ [][NextPlacement]_vars

-----------------------------------------------------------------------------
(* Claims about the placement engine, checked under SpecPlacement *)

\* the non-blank lines of a script, in order, each lowercased and trimmed
NonBlankLines(text) ==
    LET raw == splitNewline(text)
        keep == SelectSeq(raw, LAMBDA l : \E i \in 1..Len(l) : l[i] \notin WhiteSpace)
    IN <<>> \o [k \in 1..Len(keep) |-> trim(toLowerCase(keep[k]))]

\* what the grammar makes of each non-blank line of the script of the latest call
CallParses ==
    LET ls == NonBlankLines(lastResult.input)
    IN <<>> \o [k \in 1..Len(ls) |-> parseLine(ls[k])]

AllValid(parses) == \A k \in 1..Len(parses) : parses[k].success
HasMarker(parses) == \E k \in 1..Len(parses) : parses[k].tile.type \in {"thread1", "thread2", "thread3"}
Cells == (0..6) \X (0..4)
TileCount(g) == Cardinality({rc \in Cells : g[rc[1]][rc[2]] # Null})
Generated == pc = "generated"

\* C5: when the first line the grammar rejects is the k-th non-blank line, the result
\* is the failure 'Line k: <reason of that line>' and its grid holds no tile.
C5_FirstRejectedLineWins ==
    Generated =>
        \A parses \in {CallParses} :
            LET bad == {k \in 1..Len(parses) : ~parses[k].success}
            IN bad # {} =>
                LET k == CHOOSE k \in bad : \A j \in bad : k <= j
                IN /\ ~lastResult.result.success
                   /\ lastResult.result.error = <<"Line ", ToString(k), ": ">> \o parses[k].error
                   /\ TileCount(lastResult.result.grid) = 0
                   /\ error = lastResult.result.error

C5_Witness ==
    /\ Generated
    /\ lastResult.input = join(<<join(<<s_play, s_2>>, SP), SP \o SP,
                                  join(<<s_loop, s_9>>, SP), <<"j", "u", "m", "p">>>>, NL)
    /\ error = <<"Line ", "2", ": ", "Loop number must be between 1 and 8">>

\* the grid that holds the tokens of parses in row-major order and nothing else
RowMajorGrid(parses, g) ==
    \A rc \in Cells :
        LET k == 5 * rc[1] + rc[2]
        IN g[rc[1]][rc[2]] = IF k < Len(parses) THEN parses[k + 1].tile ELSE Null

\* C6 as stated: a script of n <= 35 valid lines without a thread marker is placed in
\* row-major order, token k (0-based) at row k div 5, column k mod 5, every other cell
\* empty.
C6_Original ==
    Generated =>
        \A parses \in {CallParses} :
            (AllValid(parses) /\ ~HasMarker(parses) /\ Len(parses) <= 35) =>
                /\ lastResult.result.success
                /\ RowMajorGrid(parses, lastResult.result.grid)

\* C6 (amended): a script of 1 <= n <= 35 valid lines without a thread marker is placed
\* in row-major order, token k (0-based) at row k div 5, column k mod 5, every other
\* cell empty.
C6_RowMajorPlacement ==
    Generated =>
        \A parses \in {CallParses} :
            (AllValid(parses) /\ ~HasMarker(parses) /\ Len(parses) >= 1 /\ Len(parses) <= 35) =>
                /\ lastResult.result.success
                /\ RowMajorGrid(parses, lastResult.result.grid)
                /\ grid = lastResult.result.grid

C6_Witness ==
    /\ Generated
    /\ ~HasMarker(CallParses)
    /\ Len(CallParses) = 34
    /\ grid[6][3] = Tile("else", 0)
    /\ grid[6][4] = Null

\* C7: a script of more than 35 valid lines, with or without thread markers, fails
\* with the overflow error and is never reported as a success.
C7_OverflowFails ==
    Generated =>
        \A parses \in {CallParses} :
            (AllValid(parses) /\ Len(parses) > 35) =>
                /\ ~lastResult.result.success
                /\ lastResult.result.error = <<"Code exceeds grid size (7 rows maximum)">>
                /\ error = <<"Code exceeds grid size (7 rows maximum)">>
                /\ grid = emptyGrid

C7_Witness ==
    /\ Generated
    /\ AllValid(CallParses)
    /\ HasMarker(CallParses)
    /\ Len(CallParses) = 36
    /\ error = <<"Code exceeds grid size (7 rows maximum)">>

\* C8: a script of 1 to 35 valid lines, whatever its thread markers, is placed
\* entirely: the result is a success with as many tiles as the script has commands.
C8_FitsWhenWithinCapacity ==
    Generated =>
        \A parses \in {CallParses} :
            (AllValid(parses) /\ Len(parses) >= 1 /\ Len(parses) <= 35) =>
                /\ lastResult.result.success
                /\ TileCount(lastResult.result.grid) = Len(parses)
                /\ grid = lastResult.result.grid
                /\ error = NoError

\* the rows the thread-row layout needs: more than 7, yet the script is placed densely
C8_Witness ==
    /\ Generated
    /\ AllValid(CallParses)
    /\ HasMarker(CallParses)
    /\ Len(CallParses) <= 35
    /\ ~lastResult.result.useThreadRows
    /\ TileCount(grid) = Len(CallParses)

\* the thread-row rule run over a token sequence without any limit on the rows: a new
\* row before a thread marker that is not at column 0, a wrap after 5 columns
RECURSIVE DryRun(_, _, _, _)
DryRun(parses, k, row, col) ==
    IF k > Len(parses) THEN [row |-> row, col |-> col]
    ELSE LET marker == parses[k].tile.type \in {"thread1", "thread2", "thread3"}
             r1 == IF marker /\ col > 0 THEN row + 1 ELSE row
             c1 == IF marker /\ col > 0 THEN 0 ELSE col
             r2 == IF c1 = 5 THEN r1 + 1 ELSE r1
             c2 == IF c1 = 5 THEN 0 ELSE c1
         IN DryRun(parses, k + 1, r2, c2 + 1)

\* C9: useThreadRows is true exactly when the script has a thread marker, at most 35
\* tiles, and the dry run of the thread-row rule ends with its row index below 7.
C9_UseThreadRowsExactly ==
    Generated =>
        \A parses \in {CallParses} :
            AllValid(parses) =>
                (lastResult.result.useThreadRows <=>
                    (/\ HasMarker(parses)
                     /\ Len(parses) <= 35
                     /\ DryRun(parses, 1, 0, 0).row < 7))

C9_Witness ==
    /\ Generated
    /\ lastResult.result.useThreadRows
    /\ Len(CallParses) < 35
    /\ DryRun(CallParses, 1, 0, 0).row = 6

\* C10: when useThreadRows is true every thread marker of the script is in the grid,
\* in column 0, so that no row holds two of them.
C10_MarkersInColumnZero ==
    (Generated /\ lastResult.result.useThreadRows) =>
        LET g == lastResult.result.grid
            markers == {rc \in Cells : g[rc[1]][rc[2]].type \in {"thread1", "thread2", "thread3"}}
        IN /\ \A rc \in markers : rc[2] = 0
           /\ \A rc1, rc2 \in markers : rc1[1] = rc2[1] => rc1 = rc2
           /\ \A parses \in {CallParses} :
                Cardinality(markers) =
                    Cardinality({k \in 1..Len(parses) :
                        parses[k].tile.type \in {"thread1", "thread2", "thread3"}})
           /\ grid = g

\* a marker that was reached in the middle of row 0 and went to the start of row 1
C10_Witness ==
    /\ Generated
    /\ lastResult.result.useThreadRows
    /\ grid[0][0].type = "play"
    /\ grid[0][1] = Null
    /\ grid[1][0].type = "thread2"

\* C11: when the dry run sets useThreadRows, the placement loop follows the cursor of
\* the dry run step for step: after each token both cursors are the same (row, col),
\* both loops end on the same row, and the placement does not end in the overflow
\* error.
C11_PlacementFollowsDryRun ==
    (Generated /\ lastResult.result.useThreadRows) =>
        \A pl \in {lastResult.result.parsedLines} :
            \A sim \in {simulate(pl, 0, 0, 0, <<>>)} :
                \A real \in {place(pl, TRUE, 0, 0, 0, emptyGrid, <<>>)} :
                    /\ Len(sim.trace) = Len(pl)
                    /\ Len(real.trace) = Len(pl)
                    /\ \A k \in 1..Len(pl) : real.trace[k] = sim.trace[k]
                    /\ real.row = sim.row
                    /\ real.error # overflowError
                    /\ real.success
                    /\ lastResult.result.success
                    /\ lastResult.result.grid = real.grid
                    /\ error = NoError

\* a script whose thread rows use all seven rows, with a jump to a new row before a
\* marker and a wrap at the end of a full row
C11_Witness ==
    /\ Generated
    /\ lastResult.result.useThreadRows
    /\ \E tr \in {place(lastResult.result.parsedLines, TRUE, 0, 0, 0, emptyGrid, <<>>).trace} :
          /\ tr[Len(tr)][1] = 6
          /\ \E k \in 1..(Len(tr) - 1) : tr[k][2] < 5 /\ tr[k + 1] = <<tr[k][1] + 1, 1>>
          /\ \E k \in 1..(Len(tr) - 1) : tr[k][2] = 5 /\ tr[k + 1] = <<tr[k][1] + 1, 1>>

\* C15: for an empty or whitespace-only script the result is a success with the
\* demonstration grid: thread1 at (0,0), loop with rotation 2 at (0,1), play with
\* rotation 1 at (0,2), endloop at (0,3), every other cell empty; never an error and
\* never the empty grid.
C15_EmptyScriptGivesDemoGrid ==
    (Generated /\ \A k \in 1..Len(lastResult.input) : lastResult.input[k] \in WhiteSpace) =>
        /\ lastResult.result.success
        /\ lastResult.result.error = NoError
        /\ \A rc \in Cells :
              lastResult.result.grid[rc[1]][rc[2]] =
                  CASE rc = <<0, 0>> -> [type |-> "thread1", rotation |-> 0]
                    [] rc = <<0, 1>> -> [type |-> "loop", rotation |-> 2]
                    [] rc = <<0, 2>> -> [type |-> "play", rotation |-> 1]
                    [] rc = <<0, 3>> -> [type |-> "endloop", rotation |-> 0]
                    [] OTHER -> Null
        /\ grid = lastResult.result.grid
        /\ error = NoError

\* a script of two lines of blanks
C15_Witness ==
    /\ Generated
    /\ lastResult.input = SP \o SP \o NL \o SP \o SP
    /\ grid[0][1] = [type |-> "loop", rotation |-> 2]
    /\ TileCount(grid) = 4

\* C20: for a script of more than 35 non-blank lines of which at least one is rejected
\* by the grammar, wherever it stands, the result is the error 'Line k: ...' of the
\* first rejected line and never the overflow error.
C20_GrammarErrorBeforeOverflow ==
    Generated =>
        \A parses \in {CallParses} :
            (Len(parses) > 35 /\ ~AllValid(parses)) =>
                \E k \in 1..Len(parses) :
                    /\ ~parses[k].success
                    /\ \A j \in 1..(k - 1) : parses[j].success
                    /\ ~lastResult.result.success
                    /\ lastResult.result.error # overflowError
                    /\ lastResult.result.error = <<"Line ", ToString(k), ": ">> \o parses[k].error
                    /\ TileCount(lastResult.result.grid) = 0
                    /\ error = lastResult.result.error

\* 35 lines the grammar accepts, then the only rejected line
C20_Witness ==
    /\ Generated
    /\ Len(CallParses) > 35
    /\ \A j \in 1..35 : CallParses[j].success
    /\ error = <<"Line ", "36", ": ", "Loop number must be between 1 and 8">>

\* the tiles of the non-empty cells of g, read in row-major order
RECURSIVE TilesOf(_, _)
TilesOf(g, k) ==
    IF k > 34 THEN <<>>
    ELSE (IF g[k \div 5][k % 5] # Null THEN <<g[k \div 5][k % 5]>> ELSE <<>>) \o TilesOf(g, k + 1)

\* C21: for a successful parse of a non-empty script, with thread rows or without, the
\* placement cursor only moves forward in row-major order, no cell is written twice,
\* and the non-empty cells of the grid read in row-major order are the tokens of the
\* script in script order.
C21_CursorMovesForward ==
    (Generated /\ lastResult.result.success /\ trim(lastResult.input) # <<>>) =>
        \A parses \in {CallParses} :
            \A real \in {place(lastResult.result.parsedLines, lastResult.result.useThreadRows,
                               0, 0, 0, emptyGrid, <<>>)} :
                LET written(k) == 5 * real.trace[k][1] + real.trace[k][2] - 1
                IN /\ Len(real.trace) = Len(parses)
                   /\ \A k \in 1..Len(real.trace) :
                         /\ written(k) \in 0..34
                         /\ real.trace[k][2] \in 1..5
                         /\ k > 1 => written(k - 1) < written(k)
                         /\ lastResult.result.grid[real.trace[k][1]][real.trace[k][2] - 1]
                                = parses[k].tile
                   /\ real.grid = lastResult.result.grid
                   /\ TilesOf(lastResult.result.grid, 0) =
                          <<>> \o [k \in 1..Len(parses) |-> parses[k].tile]

\* one script under each layout: with thread rows and gaps, and with markers but dense
C21_Witness ==
    /\ Generated
    /\ lastResult.result.success
    /\ HasMarker(CallParses)
    /\ ~lastResult.result.useThreadRows
    /\ TileCount(grid) = 35

-----------------------------------------------------------------------------
(* The Reverse page with its textarea: typing, Generate and Clear *)

\* what is typed: scripts that fit, scripts that overflow with part of their tiles
\* placed, scripts the grammar rejects, blanks
PageLines ==
    {PlainLines(n) : n \in {1, 7, 35, 36}}
    \cup {PlainLines(1) \o BlockLines(<<4, 5>>, 1),
          PlainLines(30) \o BlockLines(<<1, 1, 1>>, 1),
          PlainLines(5) \o BlockLines(<<10, 10, 10>>, 1),
          <<join(<<s_play, s_2>>, SP), join(<<s_loop, s_9>>, SP)>>,
          PlainLines(36) \o <<<<"j", "u", "m", "p">>>>,
          <<SP \o SP>>}

PageScripts == {join(ls, NL) : ls \in PageLines}

InitPage ==
    /\ codeText = <<>>
    /\ grid = emptyGrid
    /\ error = NoError
    /\ lastResult = NoCall
    /\ tileIn = Null
    /\ line = <<>>
    /\ lineResult = NoLineResult
    /\ command = <<>>
    /\ pc = "idle"
    /\ draggedTile = Null
    /\ threads = NoThreads
    /\ threadOutputs = NoOutputs
    /\ isRunning = FALSE
    /\ threadsAgain = NoThreads
    /\ tangibleInstance = Null
    /\ startTimer = FALSE
    /\ finishTimers = 0
    /\ windowTangible = FALSE

\* onChange={(e) => setCodeText(e.target.value)}
setCodeText ==
    \E value \in PageScripts :
        /\ codeText' = value
        /\ pc' = "edited"
        /\ UNCHANGED <<grid, error, lastResult, tileIn, line, lineResult, command, homeVars>>

NextPage == setCodeText \/ handleGenerate \/ handleClear

SpecPage == InitPage /\ [][NextPage]_vars

-----------------------------------------------------------------------------
(* Claims about the Reverse page, checked under SpecPage *)

\* the grids of the successful parses of everything the textarea can hold
WholeGrids ==
    {parseCodeToGrid(text).grid :
        text \in {t \in PageScripts \cup {<<>>, demoScript} : parseCodeToGrid(t).success}}

\* C16: a Generate whose parse fails, by a grammar error or by overflow, leaves the
\* grid of the page as it was and sets the error message; so the grid of the page is
\* at all times the empty grid or the whole grid of a successful parse, never a grid
\* on which only part of a script was placed.
C16_FailedGenerateKeepsGrid ==
    /\ [][(pc' = "generated" /\ ~lastResult'.result.success) =>
            /\ grid' = grid
            /\ codeText' = codeText
            /\ error' = lastResult'.result.error
            /\ error' # NoError]_vars
    /\ [](grid = emptyGrid \/ grid \in WholeGrids)

\* a script that overflows after a script that was placed: the parse put 35 tiles on
\* its grid, the page still shows the 7 tiles of the script before
C16_Witness ==
    /\ pc = "generated"
    /\ ~lastResult.result.success
    /\ error = overflowError
    /\ TileCount(lastResult.result.grid) = 35
    /\ TileCount(grid) = 7

\* C26: after handleGenerate on an empty input (empty or whitespace-only text, for
\* which the demonstration grid is shown), codeText is the demonstration script and the
\* grid is the demonstration grid, and parseCodeToGrid of codeText returns that grid, so
\* that Generate pressed again changes neither.
C26_EmptyInputShowsDemo ==
    (pc = "generated" /\ trim(lastResult.input) = <<>>) =>
        /\ codeText = demoScript
        /\ grid = demoGrid
        /\ \E again \in {parseCodeToGrid(codeText)} : again.success /\ again.grid = grid

\* C27: in every reachable state of the Reverse page, the error message is non-null
\* exactly when the most recent Generate or Clear was a Generate whose parse failed: a
\* successful Generate sets the grid and clears the error, and Clear resets codeText to
\* empty, the grid to all-empty and the error to null.
C27_ErrorIffLastGenerateFailed ==
    /\ [](pc \in {"idle", "edited", "generated", "cleared"} =>
            (error # NoError <=> (lastResult # NoCall /\ ~lastResult.result.success)))
    /\ [][(pc' = "generated" /\ lastResult'.result.success) =>
            (grid' = lastResult'.result.grid /\ error' = NoError)]_vars
    /\ [][pc' = "cleared" =>
            (codeText' = <<>> /\ grid' = emptyGrid /\ error' = NoError)]_vars

\* the message of a failed Generate still shown after the text was replaced by a
\* script that parses
C27_Witness ==
    /\ pc = "edited"
    /\ error # NoError
    /\ codeText # lastResult.input
    /\ parseCodeToGrid(codeText).success

-----------------------------------------------------------------------------
(* The synthesizer applied to grids *)

MaxTiles == 4

KindSeq ==
    <<"thread2", "play", "loop", "endloop", "thread1", "delay", "variable", "if",
      "else", "endif", "thread3", "playx", "random", "add", "subtract", "function",
      "endfunction", "functioncall">>

\* a few tiles, the three thread markers among them
SomeTiles ==
    {Tile("thread1", 0), Tile("thread2", 0), Tile("thread3", 0), Tile("play", 1), Tile("if", 7)}

\* the cell numbers (row-major, 0-based) the k-th tile of a sequence is put at
Layouts ==
    {[k \in 1..(MaxTiles + 1) |-> k - 1],
     [k \in 1..(MaxTiles + 1) |-> 3 * k + 1],
     [k \in 1..(MaxTiles + 1) |-> 35 - k]}

GridOf(tiles, layout) ==
    [r \in 0..(ROWS - 1) |-> [c \in 0..(COLS - 1) |->
        IF \E k \in 1..Len(tiles) : layout[k] = COLS * r + c
        THEN tiles[CHOOSE k \in 1..Len(tiles) : layout[k] = COLS * r + c]
        ELSE Null]]

\* every cell filled, with the kinds in turn and every rotation
FullGrid(o) ==
    [r \in 0..(ROWS - 1) |-> [c \in 0..(COLS - 1) |->
        LET kind == KindSeq[((COLS * r + c + o) % Len(KindSeq)) + 1]
        IN Tile(kind, IF TILE_INFO[kind].rotatable THEN (r + c + o) % 8 ELSE 0)]]

Grids ==
    {GridOf(tiles, layout) : tiles \in SeqsUpTo(SomeTiles, MaxTiles), layout \in Layouts}
    \cup {GridOf(<<t>>, <<34>>) : t \in AllTiles}
    \cup {FullGrid(o) : o \in 0..17}

InitSynth ==
    /\ codeText = <<>>
    /\ grid \in Grids
    /\ error = NoError
    /\ lastResult = NoCall
    /\ tileIn = Null
    /\ line = <<>>
    /\ lineResult = NoLineResult
    /\ command = <<>>
    /\ pc = "grid"
    /\ draggedTile = Null
    /\ threads = NoThreads
    /\ threadOutputs = NoOutputs
    /\ isRunning = FALSE
    /\ threadsAgain = NoThreads
    /\ tangibleInstance = Null
    /\ startTimer = FALSE
    /\ finishTimers = 0
    /\ windowTangible = FALSE

\* const threads = generateCode()
GenerateCode ==
    /\ pc = "grid"
    /\ threads' = generateCode(grid)
    /\ pc' = "synthesized"
    /\ UNCHANGED <<codeText, grid, error, lastResult, tileIn, line, lineResult, command,
                   draggedTile, threadOutputs, isRunning, threadsAgain, runVars>>

\* mutant: the lists flattened from the last to the first
fullCodeOf_Reversed(lists) == join(lists[2] \o lists[1] \o lists[0], NL)

\* threads.flat().join('\n')
fullCodeOf(lists) == join(lists[0] \o lists[1] \o lists[2], NL)

\* parseCodeToGrid on the flattened script of the lists
Replace ==
    /\ pc = "synthesized"
    /\ \E result \in {parseCodeToGrid(fullCodeOf(threads))} :
          /\ lastResult' = [input |-> fullCodeOf(threads), result |-> result]
          /\ pc' = IF result.success THEN "replaced" ELSE "rejected"
    /\ UNCHANGED <<codeText, grid, error, tileIn, line, lineResult, command, homeVars>>

\* generateCode on the grid of the flattened script
GenerateAgain ==
    /\ pc = "replaced"
    /\ threadsAgain' = generateCode(lastResult.result.grid)
    /\ pc' = "resynthesized"
    /\ UNCHANGED <<codeText, grid, error, lastResult, tileIn, line, lineResult, command,
                   draggedTile, threads, threadOutputs, isRunning, runVars>>

NextSynth == GenerateCode \/ Replace \/ GenerateAgain

SpecSynth == InitSynth /\ [][NextSynth]_vars

-----------------------------------------------------------------------------
(* Claims about the synthesizer, checked under SpecSynth *)

CellNumbers == 0..(ROWS * COLS - 1)
TileAt(g, k) == g[k \div 5][k % 5]
MarkerThread(tile) ==
    CASE tile.type = "thread1" -> 0 [] tile.type = "thread2" -> 1 [] tile.type = "thread3" -> 2

IsMarker(tile) == tile.type \in {"thread1", "thread2", "thread3"}

\* the thread of cell k: that of the latest marker at or before k, 0 without one
Owner(g, k) ==
    LET before == {j \in 0..k : IsMarker(TileAt(g, j))}
    IN IF before = {} THEN 0
       ELSE MarkerThread(TileAt(g, CHOOSE j \in before : \A i \in before : i <= j))

\* the commands of the cells of set S, in row-major order
RECURSIVE CommandsOf(_, _, _)
CommandsOf(g, S, k) ==
    IF k > 34 THEN <<>>
    ELSE (IF k \in S THEN <<getTileCommand(TileAt(g, k))>> ELSE <<>>) \o CommandsOf(g, S, k + 1)

\* C12: generateCode puts the command of every non-empty cell in exactly one list,
\* that of the thread of the latest marker at or before the cell in row-major order
\* (the marker itself included), thread 0 when no marker precedes it.
C12_ThreadOfLatestMarker ==
    pc = "synthesized" =>
        \A t \in 0..2 :
            threads[t] = CommandsOf(grid, {k \in CellNumbers : TileAt(grid, k) # Null
                                                              /\ Owner(grid, k) = t}, 0)

\* thread 3, then thread 1, then a command: the command belongs to thread 1
C12_Witness ==
    /\ pc = "synthesized"
    /\ grid[0][0] = Tile("thread3", 0)
    /\ grid[0][1] = Tile("thread1", 0)
    /\ grid[0][2] = Tile("play", 1)
    /\ threads[2] = <<join(<<s_thread, s_3>>, SP)>>
    /\ threads[1] = <<>>
    /\ Len(threads[0]) >= 2

\* sub is what is left of full after deleting some of its elements
RECURSIVE IsSubsequence(_, _, _, _)
IsSubsequence(sub, i, full, j) ==
    IF i > Len(sub) THEN TRUE
    ELSE IF j > Len(full) THEN FALSE
    ELSE IF sub[i] = full[j] THEN IsSubsequence(sub, i + 1, full, j + 1)
    ELSE IsSubsequence(sub, i, full, j + 1)

\* C13: for a 7x5 grid of vocabulary tiles generateCode returns three lists, which
\* have together as many commands as the grid has non-empty cells, each list in the
\* row-major order of its cells.
C13_ThreeListsInRowMajorOrder ==
    pc = "synthesized" =>
        \A all \in {CommandsOf(grid, {k \in CellNumbers : TileAt(grid, k) # Null}, 0)} :
            /\ DOMAIN threads = 0..2
            /\ \A t \in 0..2 : \A k \in 1..Len(threads[t]) : Len(threads[t][k]) > 0
            /\ Len(threads[0]) + Len(threads[1]) + Len(threads[2]) = Len(all)
            /\ Len(all) = TileCount(grid)
            /\ \A t \in 0..2 : IsSubsequence(threads[t], 1, all, 1)

\* a grid without an empty cell, each thread with commands of its own
C13_Witness ==
    /\ pc = "synthesized"
    /\ TileCount(grid) = 35
    /\ \A t \in 0..2 : Len(threads[t]) > 3

\* C23: for a grid with at least one tile, the lists of generateCode, flattened in the
\* order 0, 1, 2 into one script, placed by parseCodeToGrid (which succeeds) and
\* synthesized again, give the same three lists.
C23_SynthesisStable ==
    (pc \in {"rejected", "resynthesized"} /\ TileCount(grid) > 0) =>
        /\ pc = "resynthesized"
        /\ lastResult.result.success
        /\ TileCount(lastResult.result.grid) = TileCount(grid)
        /\ \A t \in 0..2 : threadsAgain[t] = threads[t]

\* commands before any marker, then thread 2, then thread 1: the flattened script has
\* another order than the grid
C23_Witness ==
    /\ pc = "resynthesized"
    /\ grid[0][0] = Tile("play", 1)
    /\ grid[0][1] = Tile("thread2", 0)
    /\ grid[0][2] = Tile("if", 7)
    /\ grid[0][3] = Tile("thread1", 0)
    /\ lastResult.result.grid # grid
    /\ threadsAgain = threads
    /\ Len(threads[0]) = 2 /\ Len(threads[1]) = 2

-----------------------------------------------------------------------------
(* Scripts placed on the grid and synthesized back to text *)

\* the commands as the renderer writes them, one of each form
CanonBody ==
    <<join(<<s_play, s_2>>, SP),
      join(<<s_loop, s_3, s_times>>, SP),
      join(<<s_x, s_eq, <<"5">>>>, SP),
      join(<<s_end, s_loop>>, SP),
      join(<<s_if, s_x, s_lt, s_8>>, SP),
      join(<<s_play, s_x>>, SP),
      s_else,
      join(<<s_end, s_if>>, SP),
      join(<<s_delay, s_1>>, SP),
      join(<<s_x, s_eq, s_random>>, SP),
      join(<<s_x, s_eq, s_x, s_plus, s_1>>, SP),
      s_function,
      join(<<s_x, s_eq, s_x, s_minus, s_1>>, SP),
      join(<<s_end, s_function>>, SP),
      join(<<s_call, s_function>>, SP),
      join(<<s_if, s_x, s_lt, s_1>>, SP)>>

CanonLines(n, o) == [j \in 1..n |-> CanonBody[((j + o - 1) % Len(CanonBody)) + 1]]

\* a marker line followed by n command lines, for each run length n of runs
RECURSIVE CanonBlocks(_, _, _)
CanonBlocks(marker, runs, i) ==
    IF i > Len(runs) THEN <<>>
    ELSE <<marker>> \o CanonLines(runs[i], i) \o CanonBlocks(marker, runs, i + 1)

\* blocks whose markers vary with the position and the length of their run
RECURSIVE CanonMixedBlocks(_, _)
CanonMixedBlocks(runs, i) ==
    IF i > Len(runs) THEN <<>>
    ELSE <<join(<<s_thread, <<ToString(((i + runs[i]) % 3) + 1)>>>>, SP)>>
         \o CanonLines(runs[i], i) \o CanonMixedBlocks(runs, i + 1)

RoundTripLines ==
    {CanonLines(n, 0) : n \in 0..MaxLines}
    \cup {CanonLines(lead, 0) \o CanonMixedBlocks(runs, 1) :
            lead \in {0, 1, 5}, runs \in SeqsUpTo(RunLens, MaxBlocks) \ {<<>>}}
    \cup {CanonLines(lead, 0) \o CanonBlocks(marker, runs, 1) :
            lead \in {0, 1, 5, 20},
            marker \in {join(<<s_thread, s_1>>, SP), join(<<s_thread, s_2>>, SP)},
            runs \in SeqsUpTo(RunLens, MaxBlocks) \ {<<>>}}

RoundTripScripts == {join(ls, NL) : ls \in RoundTripLines} \cup {demoScript}

InitRoundTrip ==
    /\ codeText \in RoundTripScripts
    /\ grid = emptyGrid
    /\ error = NoError
    /\ lastResult = NoCall
    /\ tileIn = Null
    /\ line = <<>>
    /\ lineResult = NoLineResult
    /\ command = <<>>
    /\ pc = "script"
    /\ draggedTile = Null
    /\ threads = NoThreads
    /\ threadOutputs = NoOutputs
    /\ isRunning = FALSE
    /\ threadsAgain = NoThreads
    /\ tangibleInstance = Null
    /\ startTimer = FALSE
    /\ finishTimers = 0
    /\ windowTangible = FALSE

\* parseCodeToGrid(codeText), the grid of the result kept
Place ==
    /\ pc = "script"
    /\ \E result \in {parseCodeToGrid(codeText)} :
          /\ lastResult' = [input |-> codeText, result |-> result]
          /\ grid' = result.grid
          /\ pc' = IF result.success THEN "placed" ELSE "failed"
    /\ UNCHANGED <<codeText, error, tileIn, line, lineResult, command, homeVars>>

\* generateCode on the grid of the result
Regenerate ==
    /\ pc = "placed"
    /\ threads' = generateCode(grid)
    /\ pc' = "synthesized"
    /\ UNCHANGED <<codeText, grid, error, lastResult, tileIn, line, lineResult, command,
                   draggedTile, threadOutputs, isRunning, threadsAgain, runVars>>

NextRoundTrip == Place \/ Regenerate

SpecRoundTrip == InitRoundTrip /\ [][NextRoundTrip]_vars

-----------------------------------------------------------------------------
(* Claims about the round trip, checked under SpecRoundTrip *)

\* the lines of a script, as written
ScriptLinesOf(text) == IF text = <<>> THEN <<>> ELSE splitNewline(text)

NoOtherThread(ls) ==
    \A k \in 1..Len(ls) :
        ls[k] # join(<<s_thread, s_2>>, SP) /\ ls[k] # join(<<s_thread, s_3>>, SP)

\* C14 as stated: a script of at most 35 canonical command lines without 'thread 2'
\* or 'thread 3', placed and synthesized, gives its own lines as thread 0 and nothing
\* for threads 1 and 2.
C14_Original ==
    pc \in {"failed", "synthesized"} =>
        \A ls \in {ScriptLinesOf(codeText)} :
            (Len(ls) <= 35 /\ NoOtherThread(ls)) =>
                /\ pc = "synthesized"
                /\ threads[0] = ls
                /\ threads[1] = <<>>
                /\ threads[2] = <<>>

\* C14 (amended): a script of 1 to 35 canonical command lines without 'thread 2' or
\* 'thread 3', placed and synthesized, gives its own lines as thread 0 and nothing for
\* threads 1 and 2.
C14_RoundTripThreadZero ==
    pc \in {"failed", "synthesized"} =>
        \A ls \in {ScriptLinesOf(codeText)} :
            (Len(ls) >= 1 /\ Len(ls) <= 35 /\ NoOtherThread(ls)) =>
                /\ pc = "synthesized"
                /\ threads[0] = ls
                /\ join(threads[0], NL) = codeText
                /\ threads[1] = <<>>
                /\ threads[2] = <<>>

\* the script of the example, on cells (0,0) to (0,3)
C14_Witness ==
    /\ pc = "synthesized"
    /\ codeText = demoScript
    /\ lastResult.result.useThreadRows
    /\ TileCount(grid) = 4
    /\ grid[0][0] # Null /\ grid[0][3] # Null
    /\ join(threads[0], NL) = demoScript

-----------------------------------------------------------------------------
(* The Home page: the tile editor *)

MaxCells == 3

\* the cells that are dragged to, dragged from and clicked
CellList == <<<<0, 0>>, <<0, 1>>, <<6, 4>>, <<3, 2>>, <<1, 0>>>>
EditCells == {CellList[k] : k \in 1..MaxCells}

\* the palette tiles that are dragged: one with a parameter, one without
PaletteKinds == {"play", "thread2"}

NoGridPos == <<>>

InitHome ==
    /\ codeText = <<>>
    /\ grid = emptyGrid
    /\ error = NoError
    /\ lastResult = NoCall
    /\ tileIn = Null
    /\ line = <<>>
    /\ lineResult = NoLineResult
    /\ command = <<>>
    /\ pc = "home"
    /\ draggedTile = Null
    /\ threads = NoThreads
    /\ threadOutputs = NoOutputs
    /\ isRunning = FALSE
    /\ threadsAgain = NoThreads
    /\ tangibleInstance = Null
    /\ startTimer = FALSE
    /\ finishTimers = 0
    /\ windowTangible = TRUE

\* setDraggedTile({ type: tile, fromGrid, gridPos }): from the palette with fromGrid
\* false and no gridPos, from a cell that holds a tile with its type and position
handleDragStart ==
    /\ pc = "home"
    /\ \/ \E tile \in PaletteKinds :
             draggedTile' = [type |-> tile, fromGrid |-> FALSE, gridPos |-> NoGridPos]
       \/ \E pos \in EditCells :
             /\ grid[pos[1]][pos[2]] # Null
             /\ draggedTile' = [type |-> grid[pos[1]][pos[2]].type, fromGrid |-> TRUE,
                                gridPos |-> pos]
    /\ UNCHANGED <<codeText, grid, error, lastResult, tileIn, line, lineResult, command, pc,
                   threads, threadOutputs, isRunning, threadsAgain, runVars>>

\* mutant: the dragged tile copied, its original cell not emptied
handleDropAt_Copy(pos) ==
    /\ pc = "home"
    /\ IF draggedTile # Null
       THEN /\ IF draggedTile.fromGrid /\ draggedTile.gridPos # NoGridPos
               THEN LET from == draggedTile.gridPos
                        originalTile == grid[from[1]][from[2]]
                    IN grid' = [grid EXCEPT ![pos[1]][pos[2]] = originalTile]
               ELSE grid' = [grid EXCEPT ![pos[1]][pos[2]] = Tile(draggedTile.type, 0)]
            /\ draggedTile' = Null
       ELSE UNCHANGED <<grid, draggedTile>>
    /\ UNCHANGED <<codeText, error, lastResult, tileIn, line, lineResult, command, pc,
                   threads, threadOutputs, isRunning, threadsAgain, runVars>>

\* handleDrop(e, rowIdx, colIdx) for the cell at pos
handleDropAt(pos) ==
    /\ pc = "home"
    /\ IF draggedTile # Null
       THEN /\ IF draggedTile.fromGrid /\ draggedTile.gridPos # NoGridPos
               THEN LET from == draggedTile.gridPos
                        originalTile == grid[from[1]][from[2]]
                    IN grid' = [[grid EXCEPT ![from[1]][from[2]] = Null]
                                    EXCEPT ![pos[1]][pos[2]] = originalTile]
               ELSE grid' = [grid EXCEPT ![pos[1]][pos[2]] = Tile(draggedTile.type, 0)]
            /\ draggedTile' = Null
       ELSE UNCHANGED <<grid, draggedTile>>
    /\ UNCHANGED <<codeText, error, lastResult, tileIn, line, lineResult, command, pc,
                   threads, threadOutputs, isRunning, threadsAgain, runVars>>

\* onDrop={(e) => handleDrop(e, rowIdx, colIdx)}
handleDrop == \E pos \in EditCells : handleDropAt(pos)

handleDropOnPalette ==
    /\ pc = "home"
    /\ IF draggedTile # Null /\ draggedTile.fromGrid /\ draggedTile.gridPos # NoGridPos
       THEN /\ grid' = [grid EXCEPT ![draggedTile.gridPos[1]][draggedTile.gridPos[2]] = Null]
            /\ draggedTile' = Null
       ELSE UNCHANGED <<grid, draggedTile>>
    /\ UNCHANGED <<codeText, error, lastResult, tileIn, line, lineResult, command, pc,
                   threads, threadOutputs, isRunning, threadsAgain, runVars>>

\* mutant: the rotation counted up without the modulo
nextRotation_NoWrap(rotation, maxRotation) == rotation + 1

\* (tile.rotation + 1) % maxRotation
nextRotation(rotation, maxRotation) == (rotation + 1) % maxRotation

\* mutant: the rotatable flag of the kind not consulted
rotateTile_AnyKind(g, rowIdx, colIdx) ==
    LET tile == g[rowIdx][colIdx]
    IN IF tile # Null
       THEN [g EXCEPT ![rowIdx][colIdx] =
                [tile EXCEPT !.rotation = nextRotation(tile.rotation, Len(rotationValues))]]
       ELSE g

\* the grid handleRotateTile(rowIdx, colIdx) sets: newGrid with the tile's rotation
\* advanced when the cell holds a rotatable tile, the grid as it is otherwise
rotateTile(g, rowIdx, colIdx) ==
    LET tile == g[rowIdx][colIdx]
    IN IF tile # Null /\ TILE_INFO[tile.type].rotatable
       THEN LET maxRotation == Len(rotationValues)
            IN [g EXCEPT ![rowIdx][colIdx] =
                   [tile EXCEPT !.rotation = nextRotation(tile.rotation, maxRotation)]]
       ELSE g

\* a click on the cell at pos, which holds a tile
handleRotateTileAt(pos) ==
    /\ pc = "home"
    /\ grid[pos[1]][pos[2]] # Null
    /\ grid' = rotateTile(grid, pos[1], pos[2])
    /\ UNCHANGED <<codeText, error, lastResult, tileIn, line, lineResult, command, pc,
                   draggedTile, threads, threadOutputs, isRunning, threadsAgain, runVars>>

\* onClick={() => cell && handleRotateTile(rowIdx, colIdx)}
handleRotateTile == \E pos \in EditCells : handleRotateTileAt(pos)

\* the positions of the Home page: "run" after a press of Run Code and "stopped" after
\* a Stop that found the Tangible instance, whichever came last, "home" before both
HomePc == {"home", "run", "stopped"}

clearGrid ==
    /\ pc \in HomePc
    /\ grid' = emptyGrid
    /\ threadOutputs' = NoOutputs
    /\ isRunning' = FALSE
    /\ UNCHANGED <<codeText, error, lastResult, tileIn, line, lineResult, command, pc,
                   draggedTile, threads, threadsAgain, runVars>>

NextHome ==
    handleDragStart \/ handleDrop \/ handleDropOnPalette \/ handleRotateTile \/ clearGrid

SpecHome == InitHome /\ [][NextHome]_vars

\* the tiles of the two pages: those parseLine returns and those on the editor's grid
InitTiles == InitGrammar \/ InitHome

NextTiles == NextGrammar \/ NextHome

SpecTiles == InitTiles /\ [][NextTiles]_vars

-----------------------------------------------------------------------------
(* Claims about the tiles of both pages, checked under SpecTiles *)

maxParam(kind) == IF kind \in {"play", "loop", "delay", "variable", "if"} THEN 7 ELSE 0

RotationInRange(tile) == tile.rotation >= 0 /\ tile.rotation <= maxParam(tile.type)

\* C17: every tile has 0 <= rotation <= maxParam(kind), 7 for play, loop, delay,
\* variable and if, 0 for the other kinds: the tile parseLine returns, and every tile
\* on the grid of the Home editor after any drops, moves, removals, rotations and
\* Clear Grid.
C17_RotationInRange ==
    /\ (pc \in {"parsed", "done"} /\ lineResult.success) => RotationInRange(lineResult.tile)
    /\ \A rc \in Cells : grid[rc[1]][rc[2]] # Null => RotationInRange(grid[rc[1]][rc[2]])

\* a tile that was dropped and clicked seven times, and a marker that is being dragged
C17_Witness ==
    /\ pc = "home"
    /\ grid[0][0] = Null
    /\ grid[0][1] = Tile("play", 7)
    /\ grid[6][4] = Tile("thread2", 0)
    /\ draggedTile # Null
    /\ draggedTile.fromGrid
    /\ draggedTile.gridPos = <<6, 4>>

\* the cells of row r that hold a tile
RowCells(g, r) == {k \in CellNumbers : k \div 5 = r /\ TileAt(g, k) # Null}

\* C22: for a grid that parseCodeToGrid laid out in thread rows, generateCode puts all
\* tiles of a grid row in the same list: the thread never changes within a row.
C22_OneThreadPerRow ==
    (pc = "synthesized" /\ lastResult.result.useThreadRows) =>
        /\ \A r \in 0..6 : \A k \in RowCells(grid, r) :
                Owner(grid, k) = Owner(grid, 5 * r)
        /\ \A t \in 0..2 :
                threads[t] = CommandsOf(grid, {k \in CellNumbers :
                                 TileAt(grid, k) # Null /\ Owner(grid, 5 * (k \div 5)) = t}, 0)

\* three threads on rows of their own, the first row started without a marker
C22_Witness ==
    /\ pc = "synthesized"
    /\ lastResult.result.useThreadRows
    /\ ~IsMarker(grid[0][0])
    /\ \A t \in 0..2 : Len(threads[t]) >= 2
    /\ \E r \in 1..6 : grid[r][0].type = "thread3" /\ grid[r - 1][4] = Null

-----------------------------------------------------------------------------
(* Claims about the Home editor's handlers, checked under SpecHome *)

\* what a click on the cell at pos must do to the grid
C24_RotateStep(pos) ==
    LET tile == grid[pos[1]][pos[2]]
    IN IF tile # Null /\ TILE_INFO[tile.type].rotatable
       THEN /\ grid'[pos[1]][pos[2]] = Tile(tile.type, (tile.rotation + 1) % 8)
            /\ \A rc \in Cells \ {pos} : grid'[rc[1]][rc[2]] = grid[rc[1]][rc[2]]
       ELSE grid' = grid

RECURSIVE rotateTimes(_, _, _)
rotateTimes(g, pos, n) ==
    IF n = 0 THEN g ELSE rotateTimes(rotateTile(g, pos[1], pos[2]), pos, n - 1)

\* C24: handleRotateTile on a cell holding a rotatable tile with rotation r sets its
\* rotation to (r + 1) mod 8 and leaves its kind and every other cell unchanged; on an
\* empty cell or a non-rotatable tile it leaves the grid unchanged; eight successive
\* rotations of the same cell restore the original grid.
C24_RotationCycles ==
    /\ [][\A pos \in EditCells : handleRotateTileAt(pos) => C24_RotateStep(pos)]_vars
    /\ [](pc = "home" =>
            \A pos \in EditCells :
               /\ rotateTimes(grid, pos, 8) = grid
               /\ (grid[pos[1]][pos[2]] = Null \/ ~TILE_INFO[grid[pos[1]][pos[2]].type].rotatable)
                      => rotateTile(grid, pos[1], pos[2]) = grid)

\* a tile clicked seven times, next to a marker and an empty cell
C24_Witness ==
    /\ pc = "home"
    /\ grid[0][0] = Tile("play", 7)
    /\ grid[0][1] = Tile("thread2", 0)
    /\ grid[6][4] = Null

\* what a drop on the cell Q must do to the grid, for the tile that is being dragged
C25_DropStep(Q) ==
    IF draggedTile.fromGrid
    THEN LET P == draggedTile.gridPos
         IN /\ grid'[Q[1]][Q[2]] = grid[P[1]][P[2]]
            /\ P # Q => grid'[P[1]][P[2]] = Null
            /\ P = Q => grid' = grid
            /\ \A rc \in Cells \ {P, Q} : grid'[rc[1]][rc[2]] = grid[rc[1]][rc[2]]
            /\ TileCount(grid') <= TileCount(grid)
    ELSE /\ grid'[Q[1]][Q[2]] = Tile(draggedTile.type, 0)
         /\ \A rc \in Cells \ {Q} : grid'[rc[1]][rc[2]] = grid[rc[1]][rc[2]]

\* C25: handleDrop of a tile dragged from grid cell P onto cell Q leaves Q holding the
\* tile that was at P with the same kind and rotation, P empty when P differs from Q
\* (a drop on the tile's own cell changes nothing), and every other cell unchanged, so
\* a move never increases the number of tiles; a drop from the palette writes
\* {kind, rotation 0} into Q and changes no other cell.
C25_DropMovesOrPlaces ==
    [][\A Q \in EditCells : (draggedTile # Null /\ handleDropAt(Q)) => C25_DropStep(Q)]_vars

\* a rotated tile moved away from the first cell, which a marker from the palette
\* then took
C25_Witness ==
    /\ pc = "home"
    /\ draggedTile = Null
    /\ grid[0][0] = Tile("thread2", 0)
    /\ grid[0][1] = Tile("play", 5)
    /\ grid[6][4] = Null

-----------------------------------------------------------------------------
(* home.tsx: Run Code, Stop and the timers of a run *)

\* the most items the library puts on one of codeThreads
MaxCode == 1

\* the most timers pending at a time
MaxTimers == 2

NotPlaying == [t \in 0..2 |-> FALSE]

NoCode == [t \in 0..2 |-> <<>>]

\* what evalTile can leave on codeThreads: for each thread a list of its items
CodeThreads == [0..2 -> {[k \in 1..n |-> "item"] : n \in 0..MaxCode}]

\* new window.Tangible() followed by the three preloadsWithGitHub: three sounds that
\* do not play, no code
newTangible == [threads |-> NotPlaying, codeThreads |-> NoCode]

\* parseTextAsJavascript, evalTile and the loop over codeThreads: the library leaves
\* code on codeThreads, and playStart is called for each thread whose list is not empty
evalAndPlay(instance, code) ==
    [threads |-> [t \in 0..2 |-> instance.threads[t] \/ Len(code[t]) > 0],
     codeThreads |-> code]

\* threads.map(thread => thread.join('\n'))
outputsOf(lists) == [t \in 0..2 |-> join(lists[t], NL)]

\* [`Error: ${err.message}`, '', '']
errorOutputs == [t \in 0..2 |-> IF t = 0 THEN <<"Error: ", "message">> ELSE <<>>]

\* the grids Run Code is pressed on: without tiles, with one tile, with two threads
RunGrids ==
    {emptyGrid,
     [emptyGrid EXCEPT ![0][0] = Tile("play", 2)],
     [emptyGrid EXCEPT ![0][0] = Tile("loop", 1), ![0][1] = Tile("play", 0),
                       ![0][2] = Tile("endloop", 0), ![1][0] = Tile("thread2", 0),
                       ![1][1] = Tile("playx", 0)]}

InitRun ==
    /\ codeText = <<>>
    /\ grid \in RunGrids
    /\ error = NoError
    /\ lastResult = NoCall
    /\ tileIn = Null
    /\ line = <<>>
    /\ lineResult = NoLineResult
    /\ command = <<>>
    /\ pc = "home"
    /\ draggedTile = Null
    /\ threads = NoThreads
    /\ threadOutputs = NoOutputs
    /\ isRunning = FALSE
    /\ threadsAgain = NoThreads
    /\ tangibleInstance = Null
    /\ startTimer = FALSE
    /\ finishTimers = 0
    /\ windowTangible \in BOOLEAN

\* onClick={runCode}. The calls into the library (the constructor, the sounds,
\* parseTextAsJavascript, evalTile, playStart) return or throw; inside the try a throw
\* reaches the catch.
runCode ==
    /\ pc \in HomePc
    /\ finishTimers + (IF startTimer THEN 1 ELSE 0) < MaxTimers
    /\ IF ~windowTangible
       THEN UNCHANGED <<pc, threads, threadOutputs, isRunning, runVars>>
       ELSE \E generated \in {generateCode(grid)} :
               /\ pc' = "run"
               /\ threads' = generated
               /\ UNCHANGED windowTangible
               /\ IF \A t \in 0..2 : Len(generated[t]) = 0
                  THEN /\ threadOutputs' = NoOutputs
                       /\ UNCHANGED <<isRunning, tangibleInstance, startTimer, finishTimers>>
                  ELSE \/ /\ tangibleInstance = Null
                          /\ isRunning' = TRUE
                          /\ threadOutputs' = outputsOf(generated)
                          /\ tangibleInstance' = newTangible
                          /\ startTimer' = TRUE
                          /\ UNCHANGED finishTimers
                       \/ /\ tangibleInstance # Null
                          /\ isRunning' = TRUE
                          /\ threadOutputs' = outputsOf(generated)
                          /\ \E code \in CodeThreads :
                                tangibleInstance' = evalAndPlay(tangibleInstance, code)
                          /\ finishTimers' = finishTimers + 1
                          /\ UNCHANGED startTimer
                       \/ /\ threadOutputs' = errorOutputs
                          /\ isRunning' = FALSE
                          /\ UNCHANGED <<tangibleInstance, startTimer, finishTimers>>
    /\ UNCHANGED <<codeText, grid, error, lastResult, tileIn, line, lineResult, command,
                   draggedTile, threadsAgain>>

\* onClick={stopCode}
stopCode ==
    /\ pc \in HomePc
    /\ IF tangibleInstance # Null
       THEN /\ tangibleInstance' = [threads |-> NotPlaying, codeThreads |-> NoCode]
            /\ isRunning' = FALSE
            /\ pc' = "stopped"
       ELSE UNCHANGED <<tangibleInstance, isRunning, pc>>
    /\ UNCHANGED <<codeText, grid, error, lastResult, tileIn, line, lineResult, command,
                   draggedTile, threads, threadOutputs, threadsAgain, startTimer,
                   finishTimers, windowTangible>>

\* the callback of setTimeout(..., 500) of the first run; it runs outside the try of
\* runCode, so that a throw of the library ends it before the second timer is set
startTimerFires ==
    /\ pc \in HomePc
    /\ startTimer
    /\ startTimer' = FALSE
    /\ \/ /\ \E code \in CodeThreads :
                tangibleInstance' = evalAndPlay(tangibleInstance, code)
          /\ finishTimers' = finishTimers + 1
       \/ UNCHANGED <<tangibleInstance, finishTimers>>
    /\ UNCHANGED <<codeText, grid, error, lastResult, tileIn, line, lineResult, command,
                   pc, draggedTile, threads, threadOutputs, isRunning, threadsAgain,
                   windowTangible>>

\* the callback of setTimeout(() => { setIsRunning(false); }, longestDuration * 1000)
finishTimerFires ==
    /\ pc \in HomePc
    /\ finishTimers > 0
    /\ finishTimers' = finishTimers - 1
    /\ isRunning' = FALSE
    /\ UNCHANGED <<codeText, grid, error, lastResult, tileIn, line, lineResult, command,
                   pc, draggedTile, threads, threadOutputs, threadsAgain,
                   tangibleInstance, startTimer, windowTangible>>

NextRun == runCode \/ stopCode \/ clearGrid \/ startTimerFires \/ finishTimerFires

SpecRun == InitRun /\ [][NextRun]_vars

\* a pending timer fires: the event loop runs every callback whose delay has passed
SpecRunFair == SpecRun /\ WF_vars(startTimerFires) /\ WF_vars(finishTimerFires)

-----------------------------------------------------------------------------
(* Claims about Run Code and Stop, checked under SpecRunFair and SpecRun *)

\* C28: whenever runCode sets isRunning to true, isRunning eventually becomes false
\* again (by the timer of the run, by Stop, by Clear Grid or by the error path), on the
\* first run that creates the Tangible instance as well as on later runs, when pending
\* timers eventually fire; runCode on a grid with no tiles never sets isRunning to true.
C28_RunEventuallyEnds ==
    /\ isRunning ~> ~isRunning
    /\ [][(TileCount(grid) = 0 /\ ~isRunning) => ~isRunning']_vars

\* C29: once stopCode has run with a Tangible instance present, isRunning is false and
\* no playback is started (no playStart call) until runCode is invoked again, in every
\* interleaving of Run, Stop and the pending timer callbacks.
C29_NoPlaybackAfterStop ==
    pc = "stopped" =>
        /\ ~isRunning
        /\ \A t \in 0..2 : ~tangibleInstance.threads[t]

====
